---- MODULE Spec2Model ----
(***************************************************************************)
(* The Kamstrup Multical 302 heat meter driver, meter_multical302.cc:     *)
(* handleTelegram (address filter, decryption gate, processContent,       *)
(* triggerUpdate), processContent (the two frame layouts 0x79 and 0x78),  *)
(* and the accessors of the three stored measurements.                    *)
(***************************************************************************)
EXTENDS Integers, Sequences, FiniteSets, TLC

VARIABLES
    total_energy_kwh_,  \* MeterMultical302::total_energy_kwh_
    current_power_kw_,  \* MeterMultical302::current_power_kw_
    total_volume_m3_,   \* MeterMultical302::total_volume_m3_
    useAes,             \* MeterCommonImplementation::useAes(): a key was configured
    t,                  \* the Telegram being (or last) handled
    beyond,             \* the memory behind t->content, read by an out-of-range content[i]
    locals,             \* processContent's locals: the iterator bytes, frame_type
    warnings,           \* warning() calls made for t
    decrypt,            \* outcome of decryptMode1_AES_CTR for t: "none", "ok", "failed"
    ranContent,         \* processContent was entered for t
    oob,                \* processContent read content past its end for t
    updates,            \* triggerUpdate calls made for t
    pre,                \* the three measurements before t was delivered
    received,           \* a telegram has been delivered
    pc,                 \* position of the handling thread inside handleTelegram
    seen,               \* what a concurrent reader got from the accessors while t was handled
    envs,               \* the caller's vector<string> that printMeter appends to
    printed             \* printMeter's out-parameters human_readable, fields, json

vars == <<total_energy_kwh_, current_power_kw_, total_volume_m3_, useAes, t, beyond,
          locals, warnings, decrypt, ranContent, oob, updates, pre, received, pc, seen,
          envs, printed>>

----------------------------------------------------------------------------
(* Bounds of the model *)

\* content may be up to MaxExtra bytes longer than the layout reads
MaxExtra == 0

\* printMeter is called at most MaxPrints times on the same envs
MaxPrints == 2

(* Program constants *)

FRAME_SHORT == 121  \* 0x79
FRAME_LONG == 120   \* 0x78
POWER_SCALE == 100
SHORT_NEEDS == 16   \* highest offset read by the 0x79 branch is 15
LONG_NEEDS == 26    \* highest offset read by the 0x78 branch is 25

----------------------------------------------------------------------------
(* Bytes *)

RECURSIVE Xor(_, _)
\* bitwise exclusive or of two naturals
Xor(a, b) ==
    IF a = 0 THEN b
    ELSE IF b = 0 THEN a
    ELSE (((a % 2) + (b % 2)) % 2) + 2 * Xor(a \div 2, b \div 2)

\* the AES-CTR keystream for the configured key, byte i (1-based)
KeyStream(i) == (85 + 37 * i) % 256

\* byte a at index i, xored with the keystream (tabulated once)
XorKey == [i \in 1..(LONG_NEEDS + MaxExtra + 1) |-> [a \in 0..255 |-> Xor(a, KeyStream(i))]]

\* decrypt_ctr: ciphertext xor keystream (its own inverse)
decryptMode1_AES_CTR(payload) == [i \in 1..Len(payload) |-> XorKey[i][payload[i]]]

----------------------------------------------------------------------------
(* Inputs: the telegrams the transport delivers *)

FrameTypes == {FRAME_SHORT, FRAME_LONG, 0}

\* content lengths: too short for the frame type, one byte short of the 0x79 layout
\* (and so short of the 0x78 layout), exact and longer
Lens == {2, SHORT_NEEDS - 1} \cup (SHORT_NEEDS..(SHORT_NEEDS + MaxExtra))
                             \cup (LONG_NEEDS..(LONG_NEEDS + MaxExtra))

\* the measured bytes a transmitted frame carries, and the byte in every other place
Readings == {
    [energy |-> <<1, 0, 0>>, volume |-> <<2, 0, 0>>, power |-> <<10, 0>>, fill |-> 0],
    [energy |-> <<3, 2, 1>>, volume |-> <<6, 5, 4>>, power |-> <<8, 7>>, fill |-> 170] }

\* the plaintext frame of length len, 0-based offset i at index i+1
Plain(len, ft, r) ==
    [i \in 1..len |->
        IF i = 3 THEN ft
        ELSE IF i \in 8..10 THEN r.energy[i - 7]
        ELSE IF i \in 14..16 THEN r.volume[i - 13]
        ELSE IF i \in 25..26 THEN r.power[i - 24]
        ELSE r.fill]

Plains == { Plain(len, ft, r) : len \in Lens, ft \in FrameTypes, r \in Readings }

\* (isTelegramForMe, isEncrypted, isSimulated)
Flags == { <<TRUE, FALSE, FALSE>>, <<TRUE, TRUE, FALSE>>, <<TRUE, TRUE, TRUE>>,
           <<FALSE, FALSE, FALSE>>, <<FALSE, TRUE, FALSE>> }

\* a telegram as the transport hands it over: an encrypted one carries the ciphertext
Telegram(f, p) ==
    [forMe |-> f[1], encrypted |-> f[2], simulated |-> f[3],
     payload |-> IF f[2] THEN decryptMode1_AES_CTR(p) ELSE p,
     content |-> <<>>, explanations |-> <<>>]

\* frames of exactly the length their layout reads
ExactPlains == { Plain(SHORT_NEEDS, FRAME_SHORT, r) : r \in Readings }
                   \cup { Plain(LONG_NEEDS, FRAME_LONG, r) : r \in Readings }

\* live telegrams for this meter carry any frame; simulated telegrams and telegrams
\* for other meters carry frames that would change the measurements when decoded
Telegrams == { Telegram(f, p) : f \in { g \in Flags : g[1] /\ ~g[3] }, p \in Plains }
                 \cup { Telegram(f, p) : f \in { g \in Flags : ~g[1] \/ g[3] }, p \in ExactPlains }

\* what may lie behind the end of content: zeroes, or bytes that look like a frame
Beyonds == { [i \in 1..LONG_NEEDS |-> 0],
             [i \in 1..LONG_NEEDS |-> IF i = 3 THEN FRAME_SHORT ELSE 255] }

NoBeyond == [i \in 1..LONG_NEEDS |-> 0]

\* nothing readable behind the end: the out-of-range read is trapped (a checked
\* operator[], a guard page) and the process ends
Trap == <<>>

\* what an out-of-range read of content can do
Outcomes == Beyonds \cup {Trap}

----------------------------------------------------------------------------
(* The machine state the handler works on, as one record *)

Machine ==
    [energy |-> total_energy_kwh_, power |-> current_power_kw_, volume |-> total_volume_m3_,
     t |-> t, beyond |-> beyond, bytes |-> locals.bytes, frame_type |-> locals.frame_type,
     warnings |-> warnings, decrypt |-> decrypt, ranContent |-> ranContent, oob |-> oob,
     updates |-> updates, crashed |-> pc = "crashed"]

Store(m) == [energy |-> m.energy, power |-> m.power, volume |-> m.volume]

\* t->content[i], i a 0-based offset; behind the end it yields what lies there
At(m, i) == IF i < Len(m.t.content) THEN m.t.content[i + 1] ELSE m.beyond[i + 1]

\* the handler reads offsets up to last: behind the end it gets what lies there, or
\* the read is trapped
Touch(m, last) ==
    [m EXCEPT !.oob = @ \/ (last >= Len(m.t.content)),
              !.crashed = @ \/ (last >= Len(m.t.content) /\ m.beyond = Trap)]

\* Telegram::addExplanation(bytes, len, ...): one entry at the iterator, which advances
addExplanation(m, len) ==
    [m EXCEPT !.t.explanations = Append(@, <<m.bytes, len>>), !.bytes = @ + len]

warning(m, w) == [m EXCEPT !.warnings = @ \cup {w}]

----------------------------------------------------------------------------
(* processContent *)

\* the three bytes composed with the top one taken as a signed char
Raw3_SignedBytes(v0, v1, v2) ==
    (IF v2 > 127 THEN v2 - 256 ELSE v2) * 256 * 256 + v1 * 256 + v0

\* the three bytes composed most significant first
Raw3_BigEndian(v0, v1, v2) == v0 * 256 * 256 + v1 * 256 + v2

\* rec1val2*256*256 + rec1val1*256 + rec1val0
Raw3(v0, v1, v2) == v2 * 256 * 256 + v1 * 256 + v0

\* the two bytes composed without the factor
PowerRaw_Unscaled(v0, v1) == v1 * 256 + v0

\* (rec1val1*256 + rec1val0)*100
PowerRaw(v0, v1) == (v1 * 256 + v0) * POWER_SCALE

\* a plain else in place of the else if: every frame that is not 0x79 is decoded as 0x78
Branch_ElseLong(frame_type) ==
    IF frame_type = FRAME_SHORT THEN "short" ELSE "long"

\* the if / else if / else on frame_type
Branch(frame_type) ==
    IF frame_type = FRAME_SHORT THEN "short"
    ELSE IF frame_type = FRAME_LONG THEN "long"
    ELSE "unknown"

\* lines 120-126: crc and frame type
Header(m) ==
    LET m0 == [Touch(m, 1) EXCEPT !.bytes = 0, !.ranContent = TRUE]
        m1 == Touch(addExplanation(m0, 2), 2)
        m2 == [m1 EXCEPT !.frame_type = At(m, 2)]
    IN  IF m0.crashed THEN m0
        ELSE IF m1.crashed THEN m1
        ELSE addExplanation(m2, 1)

\* lines 138-149: unknown, total energy
ShortEnergy(m) ==
    LET m0 == Touch(m, 6)
        m1 == Touch(addExplanation(m0, 4), 9)
        total_energy_raw == Raw3(At(m, 7), At(m, 8), At(m, 9))
        m2 == Touch(m1, 12)
        m3 == [addExplanation(m2, 4) EXCEPT !.energy = total_energy_raw]
    IN  IF m0.crashed THEN m0
        ELSE IF m1.crashed THEN m1
        ELSE IF m2.crashed THEN m2
        ELSE addExplanation(m3, 3)

\* the short frame also clearing the power it does not carry
ShortVolume_ResetsPower(m) ==
    LET m0 == Touch(m, 15)
        total_volume_raw == Raw3(At(m, 13), At(m, 14), At(m, 15))
        m1 == [m0 EXCEPT !.volume = total_volume_raw, !.power = 0]
    IN  IF m0.crashed THEN m0
        ELSE addExplanation(m1, 3)

\* lines 151-158: total volume
ShortVolume(m) ==
    LET m0 == Touch(m, 15)
        total_volume_raw == Raw3(At(m, 13), At(m, 14), At(m, 15))
        m1 == [m0 EXCEPT !.volume = total_volume_raw]
    IN  IF m0.crashed THEN m0
        ELSE addExplanation(m1, 3)

\* the power taken one byte early, out of the last byte of the unknown range
LongPower_FromUnknown(m) ==
    LET m0 == Touch(m, 23)
        m1 == Touch(addExplanation(m0, 23 - 2), 25)
        current_power_raw == PowerRaw(At(m, 23), At(m, 24))
        m2 == [m1 EXCEPT !.power = current_power_raw]
    IN  IF m0.crashed THEN m0
        ELSE IF m1.crashed THEN m1
        ELSE addExplanation(m2, 2)

\* lines 170-181: unknown, current power
LongPower(m) ==
    LET m0 == Touch(m, 23)
        m1 == Touch(addExplanation(m0, 23 - 2), 25)
        current_power_raw == PowerRaw(At(m, 24), At(m, 25))
        m2 == [m1 EXCEPT !.power = current_power_raw]
    IN  IF m0.crashed THEN m0
        ELSE IF m1.crashed THEN m1
        ELSE addExplanation(m2, 2)

\* line 184
UnknownFrame(m) == warning(m, "UnrecognizedFrameType")

processContent(m) ==
    LET h == Header(m)
        b == Branch(h.frame_type)
        e == ShortEnergy(h)
    IN  IF h.crashed THEN h
        ELSE IF b = "short" THEN (IF e.crashed THEN e ELSE ShortVolume(e))
        ELSE IF b = "long" THEN LongPower(h)
        ELSE UnknownFrame(h)

----------------------------------------------------------------------------
(* handleTelegram *)

\* the address filter left out
NotForMe_Never(tg) == FALSE

\* line 91: !isTelegramForMe(t)
NotForMe(tg) == ~tg.forMe

\* the test for a simulated telegram left out
KeyMissing_AlsoSimulated(tg, aes) == tg.encrypted /\ ~aes

\* line 101: t->isEncrypted() && !useAes() && !t->isSimulated()
KeyMissing(tg, aes) == tg.encrypted /\ ~aes /\ ~tg.simulated

\* line 104: the branch that calls the decryption primitive
CallsDecrypt(tg, aes) == aes

\* lines 101-109: ok is the outcome of the primitive when it is called; a failed
\* primitive leaves t->content as the transport made it
Gate(m, aes, ok) ==
    LET m1 == IF KeyMissing(m.t, aes) THEN warning(m, "MissingKey") ELSE m
    IN  IF CallsDecrypt(m.t, aes)
        THEN IF ok
             THEN [m1 EXCEPT !.t.content = decryptMode1_AES_CTR(m.t.payload),
                             !.decrypt = "ok"]
             ELSE [m1 EXCEPT !.decrypt = "failed"]
        ELSE [m1 EXCEPT !.t.content = m.t.payload]

\* MeterCommonImplementation::triggerUpdate(t)
triggerUpdate(m) == [m EXCEPT !.updates = @ + 1]

\* the machine when telegram tg is delivered
Deliver(m, tg, bey) ==
    [m EXCEPT !.t = tg, !.beyond = bey, !.bytes = 0, !.frame_type = 0, !.warnings = {},
              !.decrypt = "none", !.ranContent = FALSE, !.oob = FALSE, !.updates = 0,
              !.crashed = FALSE]

\* lines 89-117, the whole handler
Handle(m, aes, ok) ==
    LET c == processContent(Gate(m, aes, ok))
    IN  IF NotForMe(m.t) THEN m
        ELSE IF c.crashed THEN c
        ELSE triggerUpdate(c)

\* the content the decoder will see is shorter than the longest layout
MayReadBeyond(tg, aes, ok) ==
    (CallsDecrypt(tg, aes) /\ ~ok) \/ Len(tg.payload) < LONG_NEEDS

----------------------------------------------------------------------------
(* The specification: telegrams are handled one at a time, start to finish *)

Assign(m) ==
    /\ total_energy_kwh_' = m.energy
    /\ current_power_kw_' = m.power
    /\ total_volume_m3_' = m.volume
    /\ t' = m.t
    /\ beyond' = m.beyond
    /\ locals' = [bytes |-> m.bytes, frame_type |-> m.frame_type]
    /\ warnings' = m.warnings
    /\ decrypt' = m.decrypt
    /\ ranContent' = m.ranContent
    /\ oob' = m.oob
    /\ updates' = m.updates

Init ==
    /\ total_energy_kwh_ = 0
    /\ current_power_kw_ = 0
    /\ total_volume_m3_ = 0
    /\ useAes \in BOOLEAN
    /\ t = [forMe |-> FALSE, encrypted |-> FALSE, simulated |-> FALSE,
            payload |-> <<>>, content |-> <<>>, explanations |-> <<>>]
    /\ beyond = NoBeyond
    /\ locals = [bytes |-> 0, frame_type |-> 0]
    /\ warnings = {}
    /\ decrypt = "none"
    /\ ranContent = FALSE
    /\ oob = FALSE
    /\ updates = 0
    /\ pre = [energy |-> 0, power |-> 0, volume |-> 0]
    /\ received = FALSE
    /\ pc = "idle"
    /\ seen = {}
    /\ envs = <<>>
    /\ printed = [human_readable |-> <<>>, fields |-> <<>>, json |-> <<>>]

\* where the handling thread is after a step that would go on at label next
After(m, next) == IF m.crashed THEN "crashed" ELSE next

\* one telegram out of the set S is delivered and handled
handleTelegramFrom(S) ==
    /\ pc = "idle"
    /\ \E tg \in S :
       \E ok \in (IF ~NotForMe(tg) /\ CallsDecrypt(tg, useAes) THEN BOOLEAN ELSE {TRUE}) :
       \E bey \in (IF ~NotForMe(tg) /\ MayReadBeyond(tg, useAes, ok)
                   THEN Outcomes ELSE {NoBeyond}) :
       \E m \in {Handle(Deliver(Machine, tg, bey), useAes, ok)} :
          /\ Assign(m)
          /\ pc' = After(m, "idle")
    /\ pre' = Store(Machine)
    /\ received' = TRUE
    /\ UNCHANGED <<useAes, seen, envs, printed>>

handleTelegram == handleTelegramFrom(Telegrams)

Next == handleTelegram

Spec == Init /\ [][Next]_vars

----------------------------------------------------------------------------
(* The same handler, one statement group at a time, beside a reader thread  *)
(* that calls the accessors: nothing in the class orders the two.           *)

\* telegrams that are decoded when addressed, under every flag
ConcTelegrams == { Telegram(f, p) : f \in Flags, p \in ExactPlains }

\* lines 89-111: address filter and decryption gate
C_Receive ==
    /\ pc = "idle"
    /\ \E tg \in ConcTelegrams :
       \E ok \in (IF ~NotForMe(tg) /\ CallsDecrypt(tg, useAes) THEN BOOLEAN ELSE {TRUE}) :
       \E bey \in (IF ~NotForMe(tg) /\ MayReadBeyond(tg, useAes, ok)
                   THEN Outcomes ELSE {NoBeyond}) :
       \E m \in {Deliver(Machine, tg, bey)} :
          IF NotForMe(tg)
          THEN Assign(m) /\ pc' = "idle"
          ELSE Assign(Gate(m, useAes, ok)) /\ pc' = "content"
    /\ pre' = Store(Machine)
    /\ received' = TRUE
    /\ seen' = {}
    /\ UNCHANGED <<useAes, envs, printed>>

\* lines 120-128: crc, frame type, and the branch taken
C_Header ==
    /\ pc = "content"
    /\ \E m \in {Header(Machine)} :
          /\ Assign(m)
          /\ pc' = After(m, Branch(m.frame_type))
    /\ UNCHANGED <<useAes, pre, received, seen, envs, printed>>

\* lines 138-149
C_ShortEnergy ==
    /\ pc = "short"
    /\ Assign(ShortEnergy(Machine))
    /\ pc' = After(ShortEnergy(Machine), "volume")
    /\ UNCHANGED <<useAes, pre, received, seen, envs, printed>>

\* lines 151-158
C_ShortVolume ==
    /\ pc = "volume"
    /\ Assign(ShortVolume(Machine))
    /\ pc' = After(ShortVolume(Machine), "update")
    /\ UNCHANGED <<useAes, pre, received, seen, envs, printed>>

\* lines 170-181
C_LongPower ==
    /\ pc = "long"
    /\ Assign(LongPower(Machine))
    /\ pc' = After(LongPower(Machine), "update")
    /\ UNCHANGED <<useAes, pre, received, seen, envs, printed>>

\* line 184
C_UnknownFrame ==
    /\ pc = "unknown"
    /\ Assign(UnknownFrame(Machine))
    /\ pc' = "update"
    /\ UNCHANGED <<useAes, pre, received, seen, envs, printed>>

\* line 116
C_TriggerUpdate ==
    /\ pc = "update"
    /\ Assign(triggerUpdate(Machine))
    /\ pc' = "idle"
    /\ UNCHANGED <<useAes, pre, received, seen, envs, printed>>

\* totalEnergyConsumption, currentPowerConsumption, totalVolume (lines 61-87), called
\* by another thread back to back
ReadAccessors ==
    /\ seen' = seen \cup {Store(Machine)}
    /\ UNCHANGED <<total_energy_kwh_, current_power_kw_, total_volume_m3_, useAes, t,
                   beyond, locals, warnings, decrypt, ranContent, oob, updates, pre,
                   received, pc, envs, printed>>

NextConc ==
    \/ C_Receive
    \/ C_Header
    \/ C_ShortEnergy
    \/ C_ShortVolume
    \/ C_LongPower
    \/ C_UnknownFrame
    \/ C_TriggerUpdate
    \/ ReadAccessors

SpecConc == Init /\ [][NextConc]_vars

----------------------------------------------------------------------------
(* printMeter *)

\* convert(total_energy_kwh_, Unit::KWH, Unit::KWH)
totalEnergyConsumption(m) == m.energy

\* convert(total_volume_m3_, Unit::M3, Unit::M3)
totalVolume(m) == m.volume

\* convert(current_power_kw_, Unit::KW, Unit::KW)
currentPowerConsumption(m) == m.power

\* printf of a double that holds a whole number, with the given number of decimals:
\* the digits before the point, and that many zeroes after it
FormatF(v, decimals) == [whole |-> v, zeroes |-> decimals]

\* lines 225-240: the JSON object, its keys in print order
Json(m) ==
    << <<"media", "heat">>, <<"meter", "multical302">>, <<"name", "name()">>,
       <<"id", "t->id">>,
       <<"total_kwh", FormatF(totalEnergyConsumption(m), 6)>>,
       <<"total_volume_m3", FormatF(totalVolume(m), 6)>>,
       <<"current_kw", FormatF(currentPowerConsumption(m), 6)>>,
       <<"timestamp", "datetimeOfUpdateRobot()">> >>

\* the entries with METER_TOTAL_VOLUME_M3 and METER_TOTAL_KWH in each other's place
EnvEntries_Swapped(m) ==
    << <<"METER_JSON", Json(m)>>,
       <<"METER_TYPE", "multical302">>,
       <<"METER_ID", "t->id">>,
       <<"METER_TOTAL_VOLUME_M3", FormatF(totalVolume(m), 6)>>,
       <<"METER_TOTAL_KWH", FormatF(totalEnergyConsumption(m), 6)>>,
       <<"METER_CURRENT_KW", FormatF(currentPowerConsumption(m), 6)>>,
       <<"METER_TIMESTAMP", "datetimeOfUpdateRobot()">> >>

\* lines 244-250: the seven push_back calls, as <<key, value>>
EnvEntries(m) ==
    << <<"METER_JSON", Json(m)>>,
       <<"METER_TYPE", "multical302">>,
       <<"METER_ID", "t->id">>,
       <<"METER_TOTAL_KWH", FormatF(totalEnergyConsumption(m), 6)>>,
       <<"METER_TOTAL_VOLUME_M3", FormatF(totalVolume(m), 6)>>,
       <<"METER_CURRENT_KW", FormatF(currentPowerConsumption(m), 6)>>,
       <<"METER_TIMESTAMP", "datetimeOfUpdateRobot()">> >>

\* lines 192-251
printMeter ==
    /\ pc = "idle"
    /\ Len(envs) < MaxPrints * Len(EnvEntries(Machine))
    /\ printed' =
          [human_readable |->
              <<"name()", "t->id", FormatF(totalEnergyConsumption(Machine), 3),
                FormatF(totalVolume(Machine), 3),
                FormatF(currentPowerConsumption(Machine), 3),
                "datetimeOfUpdateHumanReadable()">>,
           fields |->
              <<"name()", "t->id", FormatF(totalEnergyConsumption(Machine), 6),
                FormatF(totalVolume(Machine), 6),
                FormatF(currentPowerConsumption(Machine), 6),
                "datetimeOfUpdateRobot()">>,
           json |-> Json(Machine)]
    /\ envs' = envs \o EnvEntries(Machine)
    /\ UNCHANGED <<total_energy_kwh_, current_power_kw_, total_volume_m3_, useAes, t,
                   beyond, locals, warnings, decrypt, ranContent, oob, updates, pre,
                   received, pc, seen>>

\* the frames of the documented examples, plain and encrypted, for this meter
PrintTelegrams ==
    { Telegram(f, Plain(IF ft = FRAME_SHORT THEN SHORT_NEEDS ELSE LONG_NEEDS, ft,
                        [energy |-> <<1, 0, 0>>, volume |-> <<2, 0, 0>>,
                         power |-> <<10, 0>>, fill |-> 0])) :
         f \in { <<TRUE, FALSE, FALSE>>, <<TRUE, TRUE, FALSE>> },
         ft \in {FRAME_SHORT, FRAME_LONG} }

\* telegrams are handled and, between them, the meter is printed
NextPrint ==
    \/ handleTelegramFrom(PrintTelegrams)
    \/ printMeter

SpecPrint == Init /\ [][NextPrint]_vars

----------------------------------------------------------------------------
(* Vocabulary of the properties *)

\* the three measurements now
Current == Store(Machine)

\* a telegram was delivered and its handling has returned
Handled == received /\ pc = "idle"

\* the handled telegram passed the address filter
Addressed == Handled /\ t.forMe

\* content has a frame-type byte and it is one of the two known ones
Recognized == Len(t.content) >= 3 /\ t.content[3] \in {FRAME_SHORT, FRAME_LONG}

\* content[i], i a 0-based offset inside content
Byte(i) == t.content[i + 1]

\* content[i] with the bytes missing behind the end taken as zero
Padded(i) == IF i < Len(t.content) THEN t.content[i + 1] ELSE 0

ZeroStore == [energy |-> 0, power |-> 0, volume |-> 0]

----------------------------------------------------------------------------
(* Properties *)

\* C1: subscribers are notified exactly once when the telegram is addressed to this
\* meter, decryption succeeded and content[2] is 0x78 or 0x79, and not at all otherwise.
\* Stated over the telegrams whose decryption did not fail and whose decoding stayed
\* inside content, so that what decides it is the frame type alone.
C1_NotifiedOnlyOnCommit ==
    (Handled /\ decrypt # "failed" /\ ~oob) =>
        updates = IF t.forMe /\ Recognized THEN 1 ELSE 0

\* C2: a telegram that is not for this meter leaves the three measurements unchanged,
\* is neither decrypted nor decoded, gets no explanation and fires no notification.
C2_RejectedHasNoEffect ==
    (Handled /\ ~t.forMe) =>
        /\ Current = pre
        /\ decrypt = "none"
        /\ ~ranContent
        /\ t.content = <<>>
        /\ t.explanations = <<>>
        /\ warnings = {}
        /\ updates = 0

\* a rejected telegram that would have changed the measurements had it been decoded,
\* encrypted or not, with a key configured or not
C2_Witness ==
    /\ Handled /\ ~t.forMe
    /\ pre # ZeroStore
    /\ Len(t.payload) = SHORT_NEEDS
    /\ ~t.encrypted /\ t.payload[3] = FRAME_SHORT
    /\ Raw3(t.payload[8], t.payload[9], t.payload[10]) # pre.energy

\* C3: an addressed telegram whose content[2] is neither 0x78 nor 0x79 ends with the
\* UnrecognizedFrameType warning and all three measurements as they were before.
C3_UnknownFrameKeepsStore ==
    (Addressed /\ Len(t.content) >= 3 /\ ~Recognized) =>
        /\ "UnrecognizedFrameType" \in warnings
        /\ Current = pre

\* an unknown frame arrives after measurements were stored
C3_Witness ==
    /\ Addressed /\ Len(t.content) >= LONG_NEEDS /\ ~Recognized
    /\ pre.energy # 0 /\ pre.power # 0 /\ pre.volume # 0

\* C4: for an addressed telegram with encrypted = false, content equals payload and
\* the decryption primitive is not applied, whether or not a key is configured.
\* Stated over the telegrams for which the primitive, if called, did not fail.
C4_UnencryptedPassesThrough ==
    (Addressed /\ ~t.encrypted /\ decrypt # "failed") =>
        /\ t.content = t.payload
        /\ decrypt = "none"

\* C5: when decryptMode1_AES_CTR fails, processContent is not run, no measurement
\* changes and no notification fires.
C5_DecryptFailureAborts ==
    (Handled /\ decrypt = "failed") =>
        /\ ~ranContent
        /\ Current = pre
        /\ updates = 0

\* C6: for an addressed telegram with at least 16 content bytes and content[2] = 0x79,
\* total_energy = content[7] + 256*content[8] + 65536*content[9] and
\* total_volume = content[13] + 256*content[14] + 65536*content[15], unscaled.
C6_ShortFrameLittleEndian ==
    (Addressed /\ Len(t.content) >= SHORT_NEEDS /\ Byte(2) = FRAME_SHORT) =>
        /\ total_energy_kwh_ = Byte(7) + 256 * Byte(8) + 65536 * Byte(9)
        /\ total_volume_m3_ = Byte(13) + 256 * Byte(14) + 65536 * Byte(15)

\* a short frame whose three energy bytes and three volume bytes all differ
C6_Witness ==
    /\ Addressed /\ Len(t.content) >= SHORT_NEEDS /\ Byte(2) = FRAME_SHORT
    /\ <<Byte(7), Byte(8), Byte(9)>> = <<3, 2, 1>>
    /\ <<Byte(13), Byte(14), Byte(15)>> = <<6, 5, 4>>
    /\ total_energy_kwh_ = 66051
    /\ total_volume_m3_ = 263430
    /\ pre.energy = 1 /\ pre.volume = 2

\* C7: for an addressed telegram with at least 26 content bytes and content[2] = 0x78,
\* current_power = (content[24] + 256*content[25]) * 100.
C7_LongFramePowerScaled ==
    (Addressed /\ Len(t.content) >= LONG_NEEDS /\ Byte(2) = FRAME_LONG) =>
        current_power_kw_ = (Byte(24) + 256 * Byte(25)) * 100

\* the long frame of the example, bytes (0A, 00), after another power was stored
C7_Witness ==
    /\ Addressed /\ Len(t.content) >= LONG_NEEDS /\ Byte(2) = FRAME_LONG
    /\ Byte(24) = 10 /\ Byte(25) = 0
    /\ current_power_kw_ = 1000
    /\ pre.power = 180000

\* C8: a reader calling the accessors while a telegram is handled gets either the
\* measurements from before the telegram or those from after it, never a mix.
C8_ReaderSeesOldOrNew ==
    Handled => seen \subseteq {pre, Current}

\* C9: when content is shorter than the selected layout needs, decoding reads nothing
\* past the end of content and computes every measurement as if the missing bytes
\* were zero.
C9_ShortContentReadsAsZero ==
    (Addressed /\ ranContent) =>
        /\ ~oob
        /\ Padded(2) = FRAME_SHORT =>
              /\ total_energy_kwh_ = Padded(7) + 256 * Padded(8) + 65536 * Padded(9)
              /\ total_volume_m3_ = Padded(13) + 256 * Padded(14) + 65536 * Padded(15)
        /\ Padded(2) = FRAME_LONG =>
              current_power_kw_ = (Padded(24) + 256 * Padded(25)) * 100
        /\ Padded(2) \notin {FRAME_SHORT, FRAME_LONG} => Current = pre

\* the entries the 0x79 layout is said to record, as <<offset, length>>
ShortEntries == << <<0, 2>>, <<2, 1>>, <<3, 4>>, <<7, 3>>, <<10, 3>>, <<13, 3>> >>

\* the entries the 0x78 layout is said to record
LongEntries == << <<0, 2>>, <<2, 1>>, <<3, 21>>, <<24, 2>> >>

\* C10: each explanation entry covers the content bytes its value was read from, in
\* increasing offset order: ShortEntries for frame type 0x79, LongEntries for 0x78.
C10_ExplanationsCoverFields ==
    (Addressed /\ decrypt # "failed" /\ Len(t.content) >= LONG_NEEDS) =>
        /\ Byte(2) = FRAME_SHORT => t.explanations = ShortEntries
        /\ Byte(2) = FRAME_LONG => t.explanations = LongEntries

\* C11: with no key configured, an addressed telegram that is encrypted and not
\* simulated gets the MissingKey warning and is still decoded from content = payload;
\* one that is simulated or not encrypted gets no MissingKey warning, content = payload.
C11_MissingKeyWarnsAndContinues ==
    (Addressed /\ ~useAes) =>
        /\ t.content = t.payload
        /\ ranContent
        /\ decrypt = "none"
        /\ ("MissingKey" \in warnings) <=> (t.encrypted /\ ~t.simulated)

\* an encrypted live telegram met without a key: warned, then decoded as it came
C11_Witness ==
    /\ Addressed /\ ~useAes /\ t.encrypted /\ ~t.simulated
    /\ "MissingKey" \in warnings
    /\ Len(t.content) >= SHORT_NEEDS
    /\ t.explanations # <<>>

\* the step delivers a telegram with the bytes and flags of the one handled before it,
\* and the decryption primitive answers as it did then
SameTelegramAgain ==
    /\ Handled /\ pc' = "idle" /\ t.forMe
    /\ t'.payload = t.payload
    /\ t'.forMe = t.forMe /\ t'.encrypted = t.encrypted /\ t'.simulated = t.simulated
    /\ decrypt' = decrypt

\* C12: handling two telegrams with identical bytes and flags one after the other
\* leaves the store after the second equal to the store after the first, and gives
\* both the same explanation trace.
C12_SameBytesSameResult ==
    [][SameTelegramAgain =>
          /\ total_energy_kwh_' = total_energy_kwh_
          /\ current_power_kw_' = current_power_kw_
          /\ total_volume_m3_' = total_volume_m3_
          /\ t'.explanations = t.explanations]_vars

\* content holds a known frame type and every byte its layout reads
WellFormed ==
    /\ Recognized
    /\ Len(t.content) >= (IF Byte(2) = FRAME_SHORT THEN SHORT_NEEDS ELSE LONG_NEEDS)

\* C13: after any sequence of telegrams the handling of each has ended (rejected,
\* failed or committed) and the pipeline is ready again: the next telegram can be
\* delivered, and a well-formed addressed one is decoded and committed.
C13_ReadyAfterEveryTelegram ==
    received =>
        /\ pc = "idle"
        /\ ENABLED handleTelegram
        /\ (Addressed /\ decrypt # "failed" /\ WellFormed) =>
              (ranContent /\ ~oob /\ updates = 1 /\ "UnrecognizedFrameType" \notin warnings)

\* the keys printMeter is to append, in order
EnvKeys == <<"METER_JSON", "METER_TYPE", "METER_ID", "METER_TOTAL_KWH",
             "METER_TOTAL_VOLUME_M3", "METER_CURRENT_KW", "METER_TIMESTAMP">>

\* C14: printMeter appends exactly seven entries to envs, with the keys of EnvKeys in
\* that order, leaves the entries already in envs in place before them, and does not
\* change total_energy, current_power or total_volume.
C14_PrintAppendsSevenEnvs ==
    [][envs' # envs =>
          /\ Len(envs') = Len(envs) + 7
          /\ SubSeq(envs', 1, Len(envs)) = envs
          /\ [i \in 1..7 |-> envs'[Len(envs) + i][1]] = EnvKeys
          /\ total_energy_kwh_' = total_energy_kwh_
          /\ current_power_kw_' = current_power_kw_
          /\ total_volume_m3_' = total_volume_m3_]_vars

\* printed twice, before and after a frame changed the measurements: fourteen entries,
\* the first seven still those of the first call
C14_Witness ==
    /\ Len(envs) = 14
    /\ envs[4] = <<"METER_TOTAL_KWH", FormatF(0, 6)>>
    /\ envs[11] = <<"METER_TOTAL_KWH", FormatF(1, 6)>>
    /\ envs[12] = <<"METER_TOTAL_VOLUME_M3", FormatF(2, 6)>>
    /\ total_energy_kwh_ = 1

\* the handler is inside processContent: some field of the layout is still to be read
Decoding == pc \in {"content", "short", "volume", "long", "unknown"}

\* C15: within one telegram no field of the store is assigned before every field of
\* the frame layout has been extracted: as long as the decode has not read the last
\* byte of the layout, the store still is the one from before the telegram.
C15_StoreWrittenOnlyWhenCommitted ==
    (Decoding /\ ~oob /\ decrypt # "failed") => Current = pre

\* offset i of a frame of type ft carries no measurement
Opaque(ft, i) ==
    \/ i \in {0, 1}
    \/ ft = FRAME_SHORT /\ (i \in 3..6 \/ i \in 10..12 \/ i >= SHORT_NEEDS)
    \/ ft = FRAME_LONG /\ (i \in 3..23 \/ i >= LONG_NEEDS)

\* the payloads that differ from p in opaque positions only: one of them, or all of
\* them, overwritten
Variants(p, ft) ==
    { [i \in 1..Len(p) |-> IF Opaque(ft, i - 1) /\ k \in {0, i} THEN v ELSE p[i]] :
         k \in 0..Len(p), v \in {85, 255} }

\* the telegram just handled, with payload p in place of its own, handled from the
\* store it was handled from
Replay(p) ==
    Handle(Deliver([Machine EXCEPT !.energy = pre.energy, !.power = pre.power,
                                   !.volume = pre.volume],
                   [t EXCEPT !.payload = p, !.content = <<>>, !.explanations = <<>>],
                   beyond),
           useAes, decrypt # "failed")

\* C16: a telegram whose content differs from the handled one in opaque positions
\* only (the checksum 0-1; 3-6, 10-12 and from 16 on in a 0x79 frame; 3-23 and from 26
\* on in a 0x78 frame), handled from the same store, gives the same total_energy,
\* current_power and total_volume, and is not rejected.
C16_OpaqueBytesDoNotCount ==
    (Addressed /\ Recognized /\ decrypt # "failed") =>
        /\ Store(Replay(t.payload)) = Current
        /\ \A p \in Variants(t.payload, Byte(2)) :
              LET r == Replay(p)
              IN  Store(r) = Current /\ r.ranContent /\ r.updates = updates

\* a long frame whose unknown bytes and checksum are AA changed the power, and a
\* variant of it differs in the checksum
C16_Witness ==
    /\ Addressed /\ Len(t.content) >= LONG_NEEDS /\ Byte(2) = FRAME_LONG
    /\ decrypt # "failed"
    /\ Byte(0) = 170 /\ Byte(23) = 170
    /\ current_power_kw_ = 180000 /\ pre.power = 1000
    /\ \E p \in Variants(t.payload, Byte(2)) : p[1] # t.payload[1]

\* C17: a 0x79 frame leaves current_power as it was and sets total_energy and
\* total_volume to the values it carries; a 0x78 frame leaves total_energy and
\* total_volume as they were and sets current_power to the value it carries; any other
\* frame leaves all three. So each value is the one of the latest frame of the type
\* that carries it, or the initial 0.
C17_FrameWritesOnlyItsOwn ==
    /\ ~received => Current = ZeroStore
    /\ (Addressed /\ ranContent) =>
          /\ locals.frame_type = FRAME_SHORT =>
                /\ current_power_kw_ = pre.power
                /\ total_energy_kwh_ =
                      Raw3(At(Machine, 7), At(Machine, 8), At(Machine, 9))
                /\ total_volume_m3_ =
                      Raw3(At(Machine, 13), At(Machine, 14), At(Machine, 15))
          /\ locals.frame_type = FRAME_LONG =>
                /\ total_energy_kwh_ = pre.energy
                /\ total_volume_m3_ = pre.volume
                /\ current_power_kw_ = PowerRaw(At(Machine, 24), At(Machine, 25))
          /\ locals.frame_type \notin {FRAME_SHORT, FRAME_LONG} => Current = pre
    /\ (Handled /\ ~(t.forMe /\ ranContent)) => Current = pre

\* a short frame was handled while the power of an earlier long frame was stored
C17_Witness ==
    /\ Addressed /\ ranContent /\ ~oob
    /\ locals.frame_type = FRAME_SHORT
    /\ pre.power = 180000 /\ current_power_kw_ = 180000
    /\ pre.energy = 1 /\ total_energy_kwh_ = 66051

\* C18: total_energy and total_volume are integers in 0..16777215, current_power is
\* a multiple of 100 in 0..6553500, and the products and sums that compute them for
\* the handled frame stay inside a signed 32-bit int.
C18_ValuesBounded ==
    /\ total_energy_kwh_ \in 0..16777215
    /\ total_volume_m3_ \in 0..16777215
    /\ current_power_kw_ \in 0..6553500
    /\ current_power_kw_ % POWER_SCALE = 0
    /\ (Addressed /\ ranContent /\ locals.frame_type = FRAME_SHORT) =>
          \A i \in {9, 15} :
             /\ At(Machine, i) * 256 * 256 <= 2147483647
             /\ At(Machine, i) * 256 * 256 + At(Machine, i - 1) * 256 <= 2147483647
             /\ Raw3(At(Machine, i - 2), At(Machine, i - 1), At(Machine, i)) <= 2147483647
    /\ (Addressed /\ ranContent /\ locals.frame_type = FRAME_LONG) =>
          /\ At(Machine, 25) * 256 + At(Machine, 24) <= 2147483647
          /\ PowerRaw(At(Machine, 24), At(Machine, 25)) <= 2147483647

\* all three values are those of well-sized frames with the bytes (03,02,01),
\* (06,05,04) and (08,07)
C18_Witness ==
    /\ Addressed /\ ranContent /\ ~oob /\ decrypt # "failed"
    /\ total_energy_kwh_ = 66051
    /\ total_volume_m3_ = 263430
    /\ current_power_kw_ = 180000

====
